---- MODULE Spec2Model ----
(***************************************************************************)
(* A model of urlfuncs3.py: pure string functions over URLs and domains.   *)
(* A Python str is a sequence of one-character strings.  A call is one     *)
(* action: it applies a function to the current string `cur` and appends   *)
(* the call (function, arguments, return value, exception) to `log`.  A    *)
(* transformation that returned makes its result the current string, so a  *)
(* behaviour is a caller composing the transformations; a classifier, an   *)
(* extractor or a list parser is called once on the input.                 *)
(***************************************************************************)
EXTENDS Integers, Sequences, FiniteSets, TLC

VARIABLES cur, log

vars == <<cur, log>>

(***************************************************************************)
(* Bounds of the model.                                                    *)
(***************************************************************************)
\* Longest chain of calls a behaviour of SpecClean / SpecToggle makes.
MaxCalls == 2
\* Number of pieces an input of SpecClean is concatenated from.
MaxCleanPieces == 3
\* Number of pieces an input of SpecWww is concatenated from.
MaxWwwPieces == 3
\* Number of pieces an input of SpecToggle is concatenated from.
MaxTogglePieces == 3
\* Number of pieces an input of SpecUrl is concatenated from.
MaxUrlPieces == 4
\* Number of pieces an input of SpecIpv4 is concatenated from.
MaxIpv4Pieces == 4
\* Number of pieces a link of SpecLink is concatenated from.
MaxLinkPieces == 3
\* Number of pieces an input of SpecZone is concatenated from.
MaxZonePieces == 4
\* Number of pieces an input of SpecList is concatenated from.
MaxListPieces == 4

(***************************************************************************)
(* Numbers of the program.                                                 *)
(***************************************************************************)
\* The {0,61} of the label patterns: a label is at most 61 + 2 characters.
LabelInnerMax == 61
\* The {2,6} of the top-level patterns.
TldShortMin == 2
TldShortMax == 6
\* The {0,3} of IPV4_REGEX.
IpGroupMax == 3
\* The bounds of 1 < len(part) < 4 in get_domain_zone.
ZonePartOver == 1
ZonePartUnder == 4
\* The "idna" codec refuses a label of 64 characters or more.
IdnaLabelLimit == 64

(***************************************************************************)
(* Python str primitives.                                                  *)
(***************************************************************************)
Min(S) == CHOOSE m \in S : \A n \in S : m <= n

Max(S) == CHOOSE m \in S : \A n \in S : m >= n

\* s[i-1:] in Python terms: the suffix of s starting at (1-based) index i.
From(s, i) == IF i > Len(s) THEN <<>> ELSE IF i < 1 THEN s ELSE SubSeq(s, i, Len(s))

\* s[:n]
Take(s, n) == IF n < 1 THEN <<>> ELSE IF n > Len(s) THEN s ELSE SubSeq(s, 1, n)

\* s[-1:]: the last character, '' for the empty string.
LastChar(s) == IF s = <<>> THEN <<>> ELSE <<s[Len(s)]>>

\* seq[-1] of a non-empty list.
LastOf(seq) == seq[Len(seq)]

\* str.startswith
StartsWith(s, p) == Len(p) <= Len(s) /\ SubSeq(s, 1, Len(p)) = p

\* str.endswith
EndsWith(s, p) == Len(p) <= Len(s) /\ SubSeq(s, Len(s) - Len(p) + 1, Len(s)) = p

\* The set of (1-based) indices at which sub occurs in s.
Occurrences(s, sub) ==
    {i \in 1..(Len(s) - Len(sub) + 1) : SubSeq(s, i, i + Len(sub) - 1) = sub}

\* str.find, 1-based; 0 when sub does not occur (Python's -1).
Find(s, sub) == IF Occurrences(s, sub) = {} THEN 0 ELSE Min(Occurrences(s, sub))

\* sub in s
Contains(s, sub) == Occurrences(s, sub) # {}

\* str.replace(old, new, 1): the first occurrence only.
ReplaceFirst(s, old, new) ==
    LET i == Find(s, old)
    IN  IF i = 0 THEN s
        ELSE Take(s, i - 1) \o new \o From(s, i + Len(old))

\* The characters str.strip() removes, among those the model's inputs use.
Whitespace == {" ", "\t", "\n", "\r"}

\* str.strip()
strip(s) ==
    LET keep == {i \in 1..Len(s) : s[i] \notin Whitespace}
    IN  IF keep = {} THEN <<>> ELSE SubSeq(s, Min(keep), Max(keep))

\* str.lstrip(chars)
lstrip(s, chars) ==
    LET keep == {i \in 1..Len(s) : s[i] \notin chars}
    IN  IF keep = {} THEN <<>> ELSE From(s, Min(keep))

\* s with every character of chars removed (str.replace(c, "") for each).
Without(s, chars) == SelectSeq(s, LAMBDA c : c \notin chars)

\* s.split(sep)[0] for a one-character sep: the text before the first sep.
BeforeFirst(s, sep) == IF Find(s, sep) = 0 THEN s ELSE Take(s, Find(s, sep) - 1)

\* s.split(sep, 1)[1] for a sep that occurs in s: the text after the first sep.
AfterFirst(s, sep) == From(s, Find(s, sep) + Len(sep))

UpperCase ==
    <<"A", "B", "C", "D", "E", "F", "G", "H", "I", "J", "K", "L", "M",
      "N", "O", "P", "Q", "R", "S", "T", "U", "V", "W", "X", "Y", "Z">>

LowerCase ==
    <<"a", "b", "c", "d", "e", "f", "g", "h", "i", "j", "k", "l", "m",
      "n", "o", "p", "q", "r", "s", "t", "u", "v", "w", "x", "y", "z">>

Digits == {"0", "1", "2", "3", "4", "5", "6", "7", "8", "9"}

Range(f) == {f[i] : i \in DOMAIN f}

Letters == Range(UpperCase) \cup Range(LowerCase)

\* str.lower(), one character.
LowerChar(c) ==
    IF c \in Range(UpperCase)
    THEN LowerCase[CHOOSE i \in DOMAIN UpperCase : UpperCase[i] = c]
    ELSE c

\* str.lower()
lower(s) == [i \in DOMAIN s |-> LowerChar(s[i])]

\* The concatenation of a sequence of strings.
RECURSIVE Concat(_)
Concat(ps) == IF ps = <<>> THEN <<>> ELSE Head(ps) \o Concat(Tail(ps))

\* All sequences over S of length at most n.
SeqsUpTo(S, n) == UNION {[1..k -> S] : k \in 0..n}

(***************************************************************************)
(* String literals of the source.                                          *)
(***************************************************************************)
HTTP == <<"h", "t", "t", "p", ":", "/", "/">>

HTTPS == <<"h", "t", "t", "p", "s", ":", "/", "/">>

WWW == <<"w", "w", "w", ".">>

SLASH == <<"/">>

ENCODED_SLASH == <<"%", "2", "F">>

(***************************************************************************)
(* Results of a call: a value, or an exception raised.                     *)
(***************************************************************************)
NoError == "none"

ValueError == "ValueError"

Ok(v) == [err |-> NoError, val |-> v]

Raise(e, v) == [err |-> e, val |-> v]

(***************************************************************************)
(* The "clean" transformations.                                            *)
(***************************************************************************)
\* remove_http: the first 'https://', then the first 'http://'.
remove_http(url) == ReplaceFirst(ReplaceFirst(url, HTTPS, <<>>), HTTP, <<>>)

\* A remove_last_slash that drops one trailing slash only.
remove_one_last_slash(string) ==
    IF LastChar(string) # SLASH THEN string
    ELSE Take(string, Len(string) - 1)

\* remove_last_slash: loop while string[-1:] == '/'; string[-1:] of '' is ''.
RECURSIVE remove_last_slash(_)
remove_last_slash(string) ==
    IF LastChar(string) # SLASH THEN string
    ELSE remove_last_slash(Take(string, Len(string) - 1))

\* REMOVE_WWW_PATTERN.findall(url): '^(http(s)?://)?w{3}\.(.+)'.  The pattern
\* is anchored, so there is at most one match; findall gives the tuple of its
\* three groups (an unmatched group is ''), '.' matches all but a newline and
\* '+' is greedy.
REMOVE_WWW_PATTERN_findall(url) ==
    LET g1   == IF StartsWith(url, HTTPS) THEN HTTPS
                ELSE IF StartsWith(url, HTTP) THEN HTTP ELSE <<>>
        g2   == IF g1 = HTTPS THEN <<"s">> ELSE <<>>
        rest == From(url, Len(g1) + 1)
        tail == From(rest, Len(WWW) + 1)
        nl   == Find(tail, <<"\n">>)
        g3   == IF nl = 0 THEN tail ELSE Take(tail, nl - 1)
    IN  IF StartsWith(rest, WWW) /\ g3 # <<>> THEN <<(<<g1, g2, g3>>)>> ELSE <<>>

\* remove_www: ''.join(findall(url)[0]); IndexError (no match) is swallowed.
remove_www(url) ==
    LET found == REMOVE_WWW_PATTERN_findall(url)
    IN  IF found = <<>> THEN url ELSE Concat(found[1])

\* A full_clean_url that strips the white space last instead of first.
full_clean_url_strip_last(url) == strip(remove_www(remove_last_slash(remove_http(url))))

\* full_clean_url: strip, remove_http, remove_last_slash, remove_www.
full_clean_url(url) == remove_www(remove_last_slash(remove_http(strip(url))))

(***************************************************************************)
(* urllib.parse.urlparse, as the functions below call it.                  *)
(***************************************************************************)
\* urllib.parse._WHATWG_C0_CONTROL_OR_SPACE, among the model's characters.
C0_CONTROL_OR_SPACE == {" ", "\t", "\n", "\r"}

\* urllib.parse._UNSAFE_URL_BYTES_TO_REMOVE
UNSAFE_URL_BYTES_TO_REMOVE == {"\t", "\r", "\n"}

\* urllib.parse.scheme_chars
scheme_chars == Letters \cup Digits \cup {"+", "-", "."}

\* The 1-based index of the first of '/', '?', '#' in s, Len(s) + 1 if none.
FirstDelim(s) ==
    LET at == {i \in 1..Len(s) : s[i] \in {"/", "?", "#"}}
    IN  IF at = {} THEN Len(s) + 1 ELSE Min(at)

\* urllib.parse._check_bracketed_host: the text between '[' and ']' must be
\* an IPv6 or IPvFuture literal.  An IPv6 literal holds two ':' or more and
\* an IPvFuture one begins with 'v'; the model's inputs hold ':' only in
\* 'http://', whose ':' ends the authority, and no 'v', so none is valid.
check_bracketed_host(hostname) == ValueError

\* urlsplit's checks of the authority: an unbalanced or invalid bracket
\* raises ValueError.
netloc_error(netloc) ==
    LET open  == Contains(netloc, <<"[">>)
        close == Contains(netloc, <<"]">>)
    IN  IF open /\ ~close THEN ValueError
        ELSE IF close /\ ~open THEN ValueError
        ELSE IF open /\ close
             THEN check_bracketed_host(BeforeFirst(AfterFirst(netloc, <<"[">>), <<"]">>))
             ELSE NoError

\* urllib.parse.urlparse(url, scheme): the components and the exception, if
\* any; scheme is the default when url names none.  The inputs hold no ';',
\* so params is always '' and is left out.
urlparse_with(url, default) ==
    LET u0      == Without(lstrip(url, C0_CONTROL_OR_SPACE), UNSAFE_URL_BYTES_TO_REMOVE)
        i       == Find(u0, <<":">>)
        hasSch  == /\ i > 1
                   /\ u0[1] \in Letters
                   /\ \A k \in 1..(i - 1) : u0[k] \in scheme_chars
        scheme  == IF hasSch THEN lower(Take(u0, i - 1)) ELSE default
        u1      == IF hasSch THEN From(u0, i + 1) ELSE u0
        hasLoc  == Take(u1, 2) = <<"/", "/">>
        u2      == IF hasLoc THEN From(u1, 3) ELSE u1
        netloc  == IF hasLoc THEN Take(u2, FirstDelim(u2) - 1) ELSE <<>>
        u3      == IF hasLoc THEN From(u2, FirstDelim(u2)) ELSE u1
        hasFrag == Contains(u3, <<"#">>)
        u4      == IF hasFrag THEN BeforeFirst(u3, <<"#">>) ELSE u3
        hasQry  == Contains(u4, <<"?">>)
    IN  [err      |-> netloc_error(netloc),
         scheme   |-> scheme,
         netloc   |-> netloc,
         path     |-> IF hasQry THEN BeforeFirst(u4, <<"?">>) ELSE u4,
         query    |-> IF hasQry THEN AfterFirst(u4, <<"?">>) ELSE <<>>,
         fragment |-> IF hasFrag THEN AfterFirst(u3, <<"#">>) ELSE <<>>]

\* urllib.parse.urlparse(url)
urlparse(url) == urlparse_with(url, <<>>)

\* urllib.parse.uses_relative
uses_relative ==
    {<<>>, <<"f", "t", "p">>, <<"h", "t", "t", "p">>,
     <<"g", "o", "p", "h", "e", "r">>, <<"n", "n", "t", "p">>,
     <<"i", "m", "a", "p">>, <<"w", "a", "i", "s">>, <<"f", "i", "l", "e">>,
     <<"h", "t", "t", "p", "s">>, <<"s", "h", "t", "t", "p">>,
     <<"m", "m", "s">>, <<"p", "r", "o", "s", "p", "e", "r", "o">>,
     <<"r", "t", "s", "p">>, <<"r", "t", "s", "p", "s">>,
     <<"r", "t", "s", "p", "u">>, <<"s", "f", "t", "p">>, <<"s", "v", "n">>,
     <<"s", "v", "n", "+", "s", "s", "h">>, <<"w", "s">>, <<"w", "s", "s">>}

\* urllib.parse.uses_netloc
uses_netloc ==
    {<<>>, <<"f", "t", "p">>, <<"h", "t", "t", "p">>,
     <<"g", "o", "p", "h", "e", "r">>, <<"n", "n", "t", "p">>,
     <<"t", "e", "l", "n", "e", "t">>, <<"i", "m", "a", "p">>,
     <<"w", "a", "i", "s">>, <<"f", "i", "l", "e">>, <<"m", "m", "s">>,
     <<"h", "t", "t", "p", "s">>, <<"s", "h", "t", "t", "p">>,
     <<"s", "n", "e", "w", "s">>, <<"p", "r", "o", "s", "p", "e", "r", "o">>,
     <<"r", "t", "s", "p">>, <<"r", "t", "s", "p", "s">>,
     <<"r", "t", "s", "p", "u">>, <<"r", "s", "y", "n", "c">>,
     <<"s", "v", "n">>, <<"s", "v", "n", "+", "s", "s", "h">>,
     <<"s", "f", "t", "p">>, <<"n", "f", "s">>, <<"g", "i", "t">>,
     <<"g", "i", "t", "+", "s", "s", "h">>, <<"w", "s">>, <<"w", "s", "s">>}

\* str.split(sep) for a one-character sep.
RECURSIVE SplitOn(_, _)
SplitOn(s, sep) ==
    IF Find(s, sep) = 0 THEN <<s>>
    ELSE <<Take(s, Find(s, sep) - 1)>> \o SplitOn(From(s, Find(s, sep) + 1), sep)

\* sep.join(parts)
RECURSIVE Join(_, _)
Join(parts, sep) ==
    IF parts = <<>> THEN <<>>
    ELSE IF Len(parts) = 1 THEN parts[1]
    ELSE parts[1] \o sep \o Join(Tail(parts), sep)

\* urllib.parse.urlunparse of (scheme, netloc, url, '', query, fragment).
urlunparse(scheme, netloc, path, query, fragment) ==
    LET withLoc == \/ netloc # <<>>
                   \/ (scheme # <<>> /\ scheme \in uses_netloc
                         /\ Take(path, 2) # <<"/", "/">>)
        p1 == IF withLoc /\ path # <<>> /\ Take(path, 1) # SLASH
              THEN SLASH \o path ELSE path
        p2 == IF withLoc THEN <<"/", "/">> \o netloc \o p1 ELSE path
        p3 == IF scheme # <<>> THEN scheme \o <<":">> \o p2 ELSE p2
        p4 == IF query # <<>> THEN p3 \o <<"?">> \o query ELSE p3
    IN  IF fragment # <<>> THEN p4 \o <<"#">> \o fragment ELSE p4

\* urljoin's loop over the segments: '..' pops, '.' is skipped.
RECURSIVE Resolve(_, _)
Resolve(segments, resolved_path) ==
    IF segments = <<>> THEN resolved_path
    ELSE IF Head(segments) = <<".", ".">>
         THEN Resolve(Tail(segments), Take(resolved_path, Len(resolved_path) - 1))
    ELSE IF Head(segments) = <<".">>
         THEN Resolve(Tail(segments), resolved_path)
    ELSE Resolve(Tail(segments), Append(resolved_path, Head(segments)))

\* segments[1:-1] = filter(None, segments[1:-1])
FilterInner(segments) ==
    IF Len(segments) < 2 THEN segments
    ELSE <<segments[1]>>
         \o SelectSeq(SubSeq(segments, 2, Len(segments) - 1), LAMBDA x : x # <<>>)
         \o <<segments[Len(segments)]>>

\* base_parts = bpath.split('/'), without a last non-empty part.
base_parts(parts) ==
    IF parts[Len(parts)] # <<>> THEN Take(parts, Len(parts) - 1) ELSE parts

\* The segments urljoin resolves.
segments_of(bpath, path) ==
    IF Take(path, 1) = SLASH THEN SplitOn(path, "/")
    ELSE FilterInner(base_parts(SplitOn(bpath, "/")) \o SplitOn(path, "/"))

\* The resolved path: a last '.' or '..' segment leaves a trailing slash.
resolved_path_of(segments, resolved) ==
    IF segments[Len(segments)] \in {<<".">>, <<".", ".">>}
    THEN Append(resolved, <<>>) ELSE resolved

\* '/'.join(resolved_path) or '/'
joined_or_slash(joined) == IF joined = <<>> THEN SLASH ELSE joined

\* The path of the joined URL.
joined_path(segments) ==
    joined_or_slash(Join(resolved_path_of(segments, Resolve(segments, <<>>)), SLASH))

\* urljoin after both arguments are parsed: b is the parsed base, u the
\* parsed url.
urljoin_parsed(base, url, b, u) ==
    LET netloc == IF u.scheme \in uses_netloc THEN b.netloc ELSE u.netloc
    IN  IF base = <<>> THEN Ok(url)
        ELSE IF url = <<>> THEN Ok(base)
        ELSE IF b.err # NoError THEN Raise(b.err, "Invalid IPv6 URL")
        ELSE IF u.err # NoError THEN Raise(u.err, "Invalid IPv6 URL")
        ELSE IF u.scheme # b.scheme \/ u.scheme \notin uses_relative THEN Ok(url)
        ELSE IF u.scheme \in uses_netloc /\ u.netloc # <<>>
             THEN Ok(urlunparse(u.scheme, u.netloc, u.path, u.query, u.fragment))
        ELSE Ok(urlunparse(u.scheme, netloc,
                           IF u.path = <<>> THEN b.path
                           ELSE joined_path(segments_of(b.path, u.path)),
                           IF u.path = <<>> /\ u.query = <<>> THEN b.query ELSE u.query,
                           u.fragment))

\* urllib.parse.urljoin(base, url)
urljoin(base, url) ==
    urljoin_parsed(base, url, urlparse(base), urlparse_with(url, urlparse(base).scheme))

(***************************************************************************)
(* The toggles.                                                            *)
(***************************************************************************)
\* A toggle_last_url_slash that cuts one character where it finds the slash.
toggle_last_url_slash_cut_one(url, encoded) ==
    LET trimmed_url == strip(url)
        slash       == IF encoded THEN ENCODED_SLASH ELSE SLASH
    IN  IF EndsWith(trimmed_url, slash)
        THEN Take(trimmed_url, Len(trimmed_url) - 1)
        ELSE trimmed_url \o slash

\* toggle_last_url_slash
toggle_last_url_slash(url, encoded) ==
    LET trimmed_url == strip(url)
        slash       == IF encoded THEN ENCODED_SLASH ELSE SLASH
    IN  IF EndsWith(trimmed_url, slash)
        THEN Take(trimmed_url, Len(trimmed_url) - Len(slash))
        ELSE trimmed_url \o slash

\* The host token the functions take from a parsed string: the authority if
\* there is one, else the text of the path before its first '/'.
netloc_of(parsed_url) ==
    IF parsed_url.netloc # <<>> THEN parsed_url.netloc
    ELSE BeforeFirst(parsed_url.path, SLASH)

\* A toggle_url_www that cuts 'www' and leaves the dot.
toggle_url_www_keep_dot(url) ==
    LET parsed_url == urlparse(url)
        netloc     == netloc_of(parsed_url)
        toggled    == IF StartsWith(lower(netloc), WWW)
                      THEN From(netloc, 4) ELSE WWW \o netloc
    IN  IF parsed_url.err # NoError THEN Raise(parsed_url.err, <<>>)
        ELSE Ok(ReplaceFirst(url, netloc, toggled))

\* toggle_url_www; urlparse's exception is not caught.
toggle_url_www(url) ==
    LET parsed_url == urlparse(url)
        netloc     == netloc_of(parsed_url)
        toggled    == IF StartsWith(lower(netloc), WWW)
                      THEN From(netloc, 5) ELSE WWW \o netloc
    IN  IF parsed_url.err # NoError THEN Raise(parsed_url.err, <<>>)
        ELSE Ok(ReplaceFirst(url, netloc, toggled))

(***************************************************************************)
(* Classification: decode_url, the patterns, is_string_url,                *)
(* is_string_domain.                                                       *)
(***************************************************************************)
\* decode_string: a str is returned as it is (the model's inputs are str).
decode_string(string) == string

\* netloc.encode("idna") of an ASCII name (the model's characters are ASCII):
\* the name itself, or UnicodeError for an empty or over-long label.
idna_encode(netloc) ==
    LET labels == SplitOn(netloc, ".")
    IN  IF netloc = <<>> THEN Ok(<<>>)
        ELSE IF \E i \in 1..(Len(labels) - 1) :
                    ~(0 < Len(labels[i]) /\ Len(labels[i]) < IdnaLabelLimit)
             THEN Raise("UnicodeError", "label empty or too long")
        ELSE IF Len(labels[Len(labels)]) >= IdnaLabelLimit
             THEN Raise("UnicodeError", "label too long")
        ELSE Ok(netloc)

\* decode_url: urlparse is called outside the try, so its ValueError leaves
\* the function; the codec's error is caught.
decode_url_parsed(decoded_string, parsed, idna) ==
    LET idna_netloc == IF idna.err = NoError THEN idna.val ELSE parsed.netloc
    IN  IF parsed.err # NoError THEN Raise(parsed.err, "Invalid IPv6 URL")
        ELSE IF parsed.netloc # <<>>
             THEN Ok(ReplaceFirst(decoded_string, parsed.netloc, idna_netloc))
        ELSE Ok(decoded_string)

decode_url(url) ==
    decode_url_parsed(decode_string(url), urlparse(decode_string(url)),
                      idna_encode(urlparse(decode_string(url)).netloc))

\* [A-Z0-9] under re.IGNORECASE, and [^\W_] on ASCII.
AlNum == Letters \cup Digits

\* \w on ASCII.
Word == AlNum \cup {"_"}

\* A label of a pattern: first(inner{0,61}first)?
LabelMatch(l, first, inner) ==
    /\ l # <<>>
    /\ Len(l) <= LabelInnerMax + 2
    /\ l[1] \in first /\ l[Len(l)] \in first
    /\ \A i \in 1..Len(l) : l[i] \in inner \cup first

\* The top level of a pattern, without the optional dot: short{2,6} | long{2,}
TldMatch(t, short, long) ==
    \/ Len(t) >= TldShortMin /\ Len(t) <= TldShortMax /\ \A i \in 1..Len(t) : t[i] \in short
    \/ Len(t) >= TldShortMin /\ \A i \in 1..Len(t) : t[i] \in long

\* (?:label\.)+(?:tld\.?) : one or more labels, each with its dot, then the
\* top level and an optional last dot.
DottedMatch(h, first, inner, short, long) ==
    LET parts0 == SplitOn(h, ".")
        parts  == IF Len(parts0) >= 2 /\ parts0[Len(parts0)] = <<>>
                  THEN Take(parts0, Len(parts0) - 1) ELSE parts0
    IN  /\ Len(parts) >= 2
        /\ \A i \in 1..(Len(parts) - 1) : LabelMatch(parts[i], first, inner)
        /\ TldMatch(parts[Len(parts)], short, long)

LOCALHOST == <<"l", "o", "c", "a", "l", "h", "o", "s", "t">>

\* \d{1,3}\.\d{1,3}\.\d{1,3}\.\d{1,3}
DottedQuadMatch(h) ==
    LET parts == SplitOn(h, ".")
    IN  /\ Len(parts) = 4
        /\ \A i \in 1..4 :
               /\ Len(parts[i]) \in 1..3
               /\ \A k \in 1..Len(parts[i]) : parts[i][k] \in Digits

\* The host alternatives of DJANGO_URL_REGEX.
UrlHostMatch(h) ==
    \/ DottedMatch(h, AlNum, AlNum \cup {"-"}, Letters, AlNum \cup {"-"})
    \/ DottedMatch(h, Word, Word \cup {"-"}, Word, Word \cup {"-"})
    \/ lower(h) = LOCALHOST
    \/ DottedQuadMatch(h)

\* (?::\d+)?(?:/?|[/?]\S+) to the end of the string.
PortAndTailMatch(r) ==
    LET nondigit == {i \in 2..Len(r) : r[i] \notin Digits}
        portEnd  == IF nondigit = {} THEN Len(r) ELSE Min(nondigit) - 1
        hasPort  == Take(r, 1) = <<":">>
        tail     == IF hasPort THEN From(r, portEnd + 1) ELSE r
    IN  /\ hasPort => portEnd >= 2
        /\ \/ tail = <<>>
           \/ tail = SLASH
           \/ /\ Len(tail) >= 2
              /\ tail[1] \in {"/", "?"}
              /\ \A i \in 2..Len(tail) : tail[i] \notin Whitespace

\* DJANGO_URL_REGEX matched from ^ to the very end of s.
UrlMatchToEnd(s) ==
    LET sep  == Find(s, <<":", "/", "/">>)
        rest == From(s, sep + 3)
        stop == {i \in 1..Len(rest) : rest[i] \in {":", "/", "?"}}
        cut  == IF stop = {} THEN Len(rest) + 1 ELSE Min(stop)
    IN  /\ sep > 0
        /\ lower(Take(s, sep - 1)) \in
               {<<"h", "t", "t", "p">>, <<"h", "t", "t", "p", "s">>,
                <<"f", "t", "p">>, <<"f", "t", "p", "s">>}
        /\ UrlHostMatch(Take(rest, cut - 1))
        /\ PortAndTailMatch(From(rest, cut))

\* DJANGO_URL_REGEX.search(s): '$' also matches before a last newline.
DJANGO_URL_REGEX_search(s) ==
    \/ UrlMatchToEnd(s)
    \/ LastChar(s) = <<"\n">> /\ UrlMatchToEnd(Take(s, Len(s) - 1))

\* is_string_url: decode_url's exception is not caught.
is_string_url_decoded(decoded_url) ==
    IF decoded_url.err # NoError THEN decoded_url
    ELSE Ok(DJANGO_URL_REGEX_search(decoded_url.val))

is_string_url(url) == is_string_url_decoded(decode_url(url))

(***************************************************************************)
(* Extractors: get_url_domain, split_url, make_absolute_url.               *)
(***************************************************************************)
\* The check every extractor begins with: the classifier's exception leaves
\* the extractor, a false verdict raises ValueError with the extractor's
\* message, a true one lets it go on to result.
checked(valid, message, result) ==
    IF valid.err # NoError THEN valid
    ELSE IF ~valid.val THEN Raise(ValueError, message)
    ELSE result

\* get_url_domain
get_url_domain(url) ==
    checked(is_string_url(url), "Not valid URL", Ok(urlparse(url).netloc))

\* url.split(domain)[-1]: the text after the last occurrence of domain that a
\* scan from the left finds, occurrences not overlapping.
RECURSIVE SplitLast(_, _)
SplitLast(url, domain) ==
    IF Find(url, domain) = 0 THEN url
    ELSE SplitLast(From(url, Find(url, domain) + Len(domain)), domain)

\* split_url from the domain get_url_domain found: cleaned if asked, then
\* the split; str.split raises ValueError for an empty separator.
split_url_at(url, clean_domain, found) ==
    LET domain == IF clean_domain THEN remove_www(found.val) ELSE found.val
    IN  IF found.err # NoError THEN found
        ELSE IF domain = <<>> THEN Raise(ValueError, "empty separator")
        ELSE Ok(<<domain, SplitLast(url, domain)>>)

\* split_url
split_url(url, clean_domain) ==
    checked(is_string_url(url), "Can not split invalid URL",
            split_url_at(url, clean_domain, get_url_domain(url)))

\* make_absolute_url: urljoin's exception is not caught.
make_absolute_url(relative, baseurl) ==
    checked(is_string_url(baseurl), "Not valid URL", urljoin(baseurl, relative))

(***************************************************************************)
(* Lists: is_string_domain, parse_url_list, parse_domain_list.             *)
(***************************************************************************)
\* int(x) of a str succeeds: surrounding whitespace, an optional sign, then
\* digits, single underscores allowed between digits.
IsInt(x) ==
    LET t == strip(x)
        d == IF Take(t, 1) \in {<<"+">>, <<"-">>} THEN From(t, 2) ELSE t
    IN  /\ d # <<>>
        /\ d[1] \in Digits /\ d[Len(d)] \in Digits
        /\ \A i \in 1..Len(d) : d[i] \in Digits \cup {"_"}
        /\ \A i \in 1..(Len(d) - 1) : ~(d[i] = "_" /\ d[i + 1] = "_")

\* DOMAIN_REGEX.search(s): the three alternatives between ^ and $, where '$'
\* also matches before a last newline.
DomainMatchToEnd(s) ==
    \/ DottedMatch(s, AlNum, AlNum \cup {"-"}, Letters, AlNum \cup {"-"})
    \/ DottedMatch(s, AlNum, AlNum, AlNum, AlNum)
    \/ lower(s) = LOCALHOST

DOMAIN_REGEX_search(s) ==
    \/ DomainMatchToEnd(s)
    \/ LastChar(s) = <<"\n">> /\ DomainMatchToEnd(Take(s, Len(s) - 1))

\* is_string_domain
is_string_domain(string) ==
    LET decoded_string == decode_string(string)
        parts          == SplitOn(decoded_string, ".")
    IN  IF IsInt(parts[Len(parts)]) THEN FALSE
        ELSE DOMAIN_REGEX_search(decoded_string)

\* str.splitlines on '\n', '\r' and '\r\n'; no empty last line.
RECURSIVE splitlines(_)
splitlines(text) ==
    LET brk == {i \in 1..Len(text) : text[i] \in {"\n", "\r"}}
        i   == Min(brk)
        adv == IF text[i] = "\r" /\ i < Len(text) /\ text[i + 1] = "\n" THEN i + 1 ELSE i
    IN  IF text = <<>> THEN <<>>
        ELSE IF brk = {} THEN <<text>>
        ELSE <<Take(text, i - 1)>> \o splitlines(From(text, adv + 1))

\* [x.strip() for x in text.splitlines() if x]: the filter sees the line
\* before it is stripped.
RECURSIVE StripNonEmpty(_)
StripNonEmpty(lines) ==
    IF lines = <<>> THEN <<>>
    ELSE (IF Head(lines) # <<>> THEN <<strip(Head(lines))>> ELSE <<>>)
         \o StripNonEmpty(Tail(lines))

\* parse_url_list: the first line, in order, whose check raises or fails
\* ends the call; the index in the message counts from 0.
parse_url_list_checked(urls, valid) ==
    LET bad == {i \in 1..Len(urls) : valid[i].err # NoError \/ ~valid[i].val}
        i   == Min(bad)
    IN  IF bad = {} THEN Ok(urls)
        ELSE IF valid[i].err # NoError THEN Raise(valid[i].err, <<"Invalid IPv6 URL">>)
        ELSE Raise(ValueError, <<"Invalid URL", urls[i], i - 1>>)

\* The verdicts of is_string_url on the lines.
url_checks(urls) == [k \in 1..Len(urls) |-> is_string_url(urls[k])]

parse_url_list(text) ==
    parse_url_list_checked(StripNonEmpty(splitlines(text)),
                           url_checks(StripNonEmpty(splitlines(text))))

\* The domain parse_domain_list takes from one line, parsed (no domain is
\* taken from a line urlparse raised on: the call has ended by then).
domain_of_line(domain, parsed_domain) ==
    IF parsed_domain.err # NoError THEN domain
    ELSE IF parsed_domain.netloc # <<>> THEN parsed_domain.netloc
    ELSE IF parsed_domain.path # <<>> THEN SplitOn(parsed_domain.path, "/")[1]
    ELSE domain

\* parse_domain_list on the stripped lines and their domains: urlparse's
\* exception is not caught.
parse_domain_list_parsed(parsed, validDomains) ==
    LET raises == {i \in 1..Len(parsed) : parsed[i].err # NoError}
        bad    == {i \in 1..Len(parsed) :
                      i \in raises \/ ~is_string_domain(validDomains[i])}
        i      == Min(bad)
    IN  IF bad = {} THEN Ok(validDomains)
        ELSE IF i \in raises THEN Raise(ValueError, <<"Invalid IPv6 URL">>)
        ELSE Raise(ValueError, <<"Invalid domain", validDomains[i], i - 1>>)

\* urlparse of each line.
parse_lines(domains) == [k \in 1..Len(domains) |-> urlparse(domains[k])]

\* The domain of each line.
domains_of_lines(domains, parsed) ==
    [k \in 1..Len(domains) |-> domain_of_line(domains[k], parsed[k])]

parse_domain_list(text) ==
    parse_domain_list_parsed(
        parse_lines(StripNonEmpty(splitlines(text))),
        domains_of_lines(StripNonEmpty(splitlines(text)),
                         parse_lines(StripNonEmpty(splitlines(text)))))

(***************************************************************************)
(* is_link_internal                                                        *)
(***************************************************************************)
\* clean_url.index(clean_domain) returned 0: the first occurrence of
\* clean_domain is at the start; a ValueError (no occurrence) is caught and
\* gives False as well.
index_is_zero(clean_url, clean_domain) == Find(clean_url, clean_domain) = 1

\* The domain is_link_internal cleans: the authority of a domain that is a
\* valid URL, else the domain as given.
domain_to_clean(domain, valid_domain, found) ==
    IF valid_domain.val THEN found.val ELSE domain

\* The try block of is_link_internal: a ValueError of is_string_url(domain)
\* or of get_url_domain(domain) is caught and gives False.
is_link_internal_try(clean_url, domain, valid_domain, found) ==
    IF valid_domain.err # NoError THEN FALSE
    ELSE IF valid_domain.val /\ found.err # NoError THEN FALSE
    ELSE index_is_zero(clean_url,
                       full_clean_url(domain_to_clean(domain, valid_domain, found)))

\* is_link_internal after is_string_url(url), which is called outside the
\* try: its exception leaves the function.
is_link_internal_checked(url, domain, valid) ==
    IF valid.err # NoError THEN valid
    ELSE IF ~valid.val THEN Ok(TRUE)
    ELSE Ok(is_link_internal_try(full_clean_url(url), domain,
                                 is_string_url(domain), get_url_domain(domain)))

\* is_link_internal
is_link_internal(link, domain) ==
    is_link_internal_checked(strip(link), domain, is_string_url(strip(link)))

(***************************************************************************)
(* get_root_domain_zone, get_domain_zone                                   *)
(***************************************************************************)
\* reversed(seq)
Reverse(seq) == [k \in 1..Len(seq) |-> seq[Len(seq) + 1 - k]]

\* get_root_domain_zone after urlparse, whose exception is not caught.
root_domain_zone_of(parsed_url) ==
    IF parsed_url.err # NoError THEN Raise(parsed_url.err, "Invalid IPv6 URL")
    ELSE Ok(LastOf(SplitOn(netloc_of(parsed_url), ".")))

\* get_root_domain_zone
get_root_domain_zone(url) == root_domain_zone_of(urlparse(url))

\* A loop that skips a part of another length and goes on.
RECURSIVE zone_loop_no_break(_, _)
zone_loop_no_break(parts, domain_zone) ==
    IF parts = <<>> THEN domain_zone
    ELSE IF ZonePartOver < Len(Head(parts)) /\ Len(Head(parts)) < ZonePartUnder
         THEN zone_loop_no_break(Tail(parts), Append(domain_zone, Head(parts)))
    ELSE zone_loop_no_break(Tail(parts), domain_zone)

\* The loop of get_domain_zone over reversed(splitted): a part of 2 or 3
\* characters is appended, any other part ends the loop.
RECURSIVE zone_loop(_, _)
zone_loop(parts, domain_zone) ==
    IF parts = <<>> THEN domain_zone
    ELSE IF ZonePartOver < Len(Head(parts)) /\ Len(Head(parts)) < ZonePartUnder
         THEN zone_loop(Tail(parts), Append(domain_zone, Head(parts)))
    ELSE domain_zone

\* The zone of the labels of a host: the last one, then the loop over the
\* others from the right, the whole reversed and joined.
zone_of(splitted) ==
    Join(Reverse(zone_loop(Reverse(Take(splitted, Len(splitted) - 1)),
                           <<LastOf(splitted)>>)),
         <<".">>)

\* get_domain_zone after urlparse, whose exception is not caught.
domain_zone_of(parsed_url) ==
    IF parsed_url.err # NoError THEN Raise(parsed_url.err, "Invalid IPv6 URL")
    ELSE Ok(zone_of(SplitOn(netloc_of(parsed_url), ".")))

\* get_domain_zone
get_domain_zone(url) == domain_zone_of(urlparse(url))

(***************************************************************************)
(* is_string_ipv4                                                          *)
(***************************************************************************)
\* [0-9]{0,3}: the characters of s from index a to index b are at most
\* three, all digits.
IpGroupMatch(s, a, b) ==
    /\ b - a + 1 <= IpGroupMax
    /\ \A k \in a..b : s[k] \in Digits

\* The unescaped '.' of IPV4_REGEX: any character but a newline.
AnyCharMatch(c) == c # "\n"

\* [0-9]{0,3}.[0-9]{0,3}.[0-9]{0,3}.[0-9]{0,3} from ^ to the very end of s:
\* three characters at i, j, k stand for the three '.' and what is around
\* them is groups.
Ipv4MatchToEnd(s) ==
    \E i \in 1..Len(s) : \E j \in (i + 1)..Len(s) : \E k \in (j + 1)..Len(s) :
        /\ AnyCharMatch(s[i]) /\ AnyCharMatch(s[j]) /\ AnyCharMatch(s[k])
        /\ IpGroupMatch(s, 1, i - 1)
        /\ IpGroupMatch(s, i + 1, j - 1)
        /\ IpGroupMatch(s, j + 1, k - 1)
        /\ IpGroupMatch(s, k + 1, Len(s))

\* IPV4_REGEX.search(s): '$' also matches before a last newline.
IPV4_REGEX_search(s) ==
    \/ Ipv4MatchToEnd(s)
    \/ LastChar(s) = <<"\n">> /\ Ipv4MatchToEnd(Take(s, Len(s) - 1))

\* is_string_ipv4
is_string_ipv4(string) == IPV4_REGEX_search(string)

(***************************************************************************)
(* Calls.                                                                  *)
(***************************************************************************)
\* A domain name the callers' inputs are made of.
A_BC == <<"a", ".", "b", "c">>

\* The record of one call.
Call(fn, arg, opt, r) == [fn |-> fn, arg |-> arg, opt |-> opt, ret |-> r.val, err |-> r.err]

\* A call fn(cur, opt) of a function that returns a string: the result
\* becomes the current string, unless the call raised.
ChainOpt(fn, opt, r) ==
    /\ Len(log) < MaxCalls
    /\ log' = Append(log, Call(fn, cur, opt, r))
    /\ cur' = IF r.err = NoError THEN r.val ELSE cur

\* A call fn(cur).
Chain(fn, r) == ChainOpt(fn, FALSE, r)

CallRemoveHttp == Chain("remove_http", Ok(remove_http(cur)))

CallRemoveLastSlash == Chain("remove_last_slash", Ok(remove_last_slash(cur)))

CallRemoveWww == Chain("remove_www", Ok(remove_www(cur)))

CallFullCleanUrl == Chain("full_clean_url", Ok(full_clean_url(cur)))

CallToggleUrlWww == Chain("toggle_url_www", toggle_url_www(cur))

CallToggleLastUrlSlash ==
    \E encoded \in BOOLEAN :
        ChainOpt("toggle_last_url_slash", encoded, Ok(toggle_last_url_slash(cur, encoded)))

\* One call fn(cur, opt) of a function whose result is not fed back.
Once(fn, opt, r) ==
    /\ log = <<>>
    /\ log' = <<Call(fn, cur, opt, r)>>
    /\ UNCHANGED cur

CallIsStringUrl == Once("is_string_url", FALSE, is_string_url(cur))

CallDecodeUrl == Once("decode_url", FALSE, decode_url(cur))

CallGetUrlDomain == Once("get_url_domain", FALSE, get_url_domain(cur))

CallSplitUrl ==
    \E clean_domain \in BOOLEAN :
        Once("split_url", clean_domain, split_url(cur, clean_domain))

\* The relative references a caller resolves against the current string.
RelativeInputs ==
    {<<>>, <<"x">>, <<"/", "x">>, <<".", ".", "/", "x">>, <<"/", "/", "[">>}

CallMakeAbsoluteUrl ==
    \E relative \in RelativeInputs :
        Once("make_absolute_url", relative, make_absolute_url(relative, cur))

CallParseUrlList == Once("parse_url_list", FALSE, parse_url_list(cur))

CallParseDomainList == Once("parse_domain_list", FALSE, parse_domain_list(cur))

CallIsStringIpv4 == Once("is_string_ipv4", FALSE, Ok(is_string_ipv4(cur)))

\* The domains a caller asks about.
DomainInputs ==
    {<<>>, A_BC, WWW \o A_BC, <<"b", "c">>, HTTP \o A_BC, HTTP \o WWW \o A_BC \o <<"/", "x">>,
     <<" ">> \o A_BC \o <<"/", " ">>, HTTP \o <<"[">>, <<"x">>}

CallIsLinkInternal ==
    \E domain \in DomainInputs :
        Once("is_link_internal", domain, is_link_internal(cur, domain))

CallGetRootDomainZone == Once("get_root_domain_zone", FALSE, get_root_domain_zone(cur))

CallGetDomainZone == Once("get_domain_zone", FALSE, get_domain_zone(cur))

(***************************************************************************)
(* SpecClean: a caller chaining the clean transformations on one input.    *)
(***************************************************************************)
CleanPieces == {HTTP, HTTPS, WWW, <<"a">>, SLASH, <<" ">>, <<"\n">>}

CleanInputs == {Concat(ps) : ps \in SeqsUpTo(CleanPieces, MaxCleanPieces)}

InitClean == cur \in CleanInputs /\ log = <<>>

NextClean ==
    \/ CallRemoveHttp
    \/ CallRemoveLastSlash
    \/ CallRemoveWww
    \/ CallFullCleanUrl

SpecClean == InitClean /\ [][NextClean]_vars

(***************************************************************************)
(* SpecWww: a caller of remove_www on one-line strings.                    *)
(***************************************************************************)
WwwPieces == {HTTP, HTTPS, WWW, <<"a">>, <<".">>, SLASH}

WwwInputs == {Concat(ps) : ps \in SeqsUpTo(WwwPieces, MaxWwwPieces)}

InitWww == cur \in WwwInputs /\ log = <<>>

NextWww == CallRemoveWww

SpecWww == InitWww /\ [][NextWww]_vars

(***************************************************************************)
(* SpecToggle: a caller chaining the toggles on one input.                 *)
(***************************************************************************)
WWW_UPPER == <<"W", "W", "W", ".">>

FTP == <<"f", "t", "p", ":", "/", "/">>

TogglePieces ==
    {HTTP, FTP, WWW, WWW_UPPER, <<"a", ".", "b">>, <<"t", "p">>, SLASH, <<" ">>,
     ENCODED_SLASH}

ToggleInputs == {Concat(ps) : ps \in SeqsUpTo(TogglePieces, MaxTogglePieces)}

InitToggle == cur \in ToggleInputs /\ log = <<>>

NextToggle ==
    \/ CallToggleUrlWww
    \/ CallToggleLastUrlSlash

SpecToggle == InitToggle /\ [][NextToggle]_vars

(***************************************************************************)
(* SpecUrl: a caller of the classifier and of the extractors on one input. *)
(***************************************************************************)
UrlPieces == {HTTP, WWW, A_BC, SLASH, <<"[">>, <<" ">>, <<":", "8">>, <<".">>}

UrlInputs == {Concat(ps) : ps \in SeqsUpTo(UrlPieces, MaxUrlPieces)}

InitUrl == cur \in UrlInputs /\ log = <<>>

NextUrl ==
    \/ CallIsStringUrl
    \/ CallDecodeUrl
    \/ CallGetUrlDomain
    \/ CallSplitUrl
    \/ CallMakeAbsoluteUrl

SpecUrl == InitUrl /\ [][NextUrl]_vars

(***************************************************************************)
(* SpecList: a caller of the list parsers on one text.                     *)
(***************************************************************************)
ListPieces ==
    {HTTP \o A_BC, A_BC, <<"x">>, <<"[">>, SLASH, <<" ">>, <<"\n">>, <<"\r">>}

ListInputs == {Concat(ps) : ps \in SeqsUpTo(ListPieces, MaxListPieces)}

InitList == cur \in ListInputs /\ log = <<>>

NextList ==
    \/ CallParseUrlList
    \/ CallParseDomainList

SpecList == InitList /\ [][NextList]_vars

(***************************************************************************)
(* SpecIpv4: a caller of is_string_ipv4 on one string.                     *)
(***************************************************************************)
Ipv4Pieces ==
    {<<"1", ".">>, <<"2", "a">>, <<"3">>, <<".">>, <<"4", "5", "6", "7">>, <<"a">>, <<"\n">>}

Ipv4Inputs == {Concat(ps) : ps \in SeqsUpTo(Ipv4Pieces, MaxIpv4Pieces)}

InitIpv4 == cur \in Ipv4Inputs /\ log = <<>>

NextIpv4 == CallIsStringIpv4

SpecIpv4 == InitIpv4 /\ [][NextIpv4]_vars

(***************************************************************************)
(* SpecLink: a caller of is_link_internal on one link.                     *)
(***************************************************************************)
LinkPieces == {HTTP, WWW, A_BC, SLASH, <<"x">>, <<" ">>, <<"[">>}

LinkInputs == {Concat(ps) : ps \in SeqsUpTo(LinkPieces, MaxLinkPieces)}

InitLink == cur \in LinkInputs /\ log = <<>>

NextLink == CallIsLinkInternal

SpecLink == InitLink /\ [][NextLink]_vars

(***************************************************************************)
(* SpecZone: a caller of the zone functions on one string.                 *)
(***************************************************************************)
ZonePieces ==
    {HTTP, <<"a", ".">>, <<"b", "c", ".">>, <<"d", "e", "f", ".">>,
     <<"g", "h", "i", "j", ".">>, <<"u", "k">>, SLASH, <<"[">>}

ZoneInputs == {Concat(ps) : ps \in SeqsUpTo(ZonePieces, MaxZonePieces)}

InitZone == cur \in ZoneInputs /\ log = <<>>

NextZone ==
    \/ CallGetRootDomainZone
    \/ CallGetDomainZone

SpecZone == InitZone /\ [][NextZone]_vars

(***************************************************************************)
(* What the claims speak of.                                               *)
(***************************************************************************)
\* The calls of function fn in the log.
CallsOf(fn) == {i \in 1..Len(log) : log[i].fn = fn}

\* The calls of fn that returned and whose result the next call passes to fn
\* again.
TwiceOf(fn) == {i \in CallsOf(fn) : i + 1 \in CallsOf(fn) /\ log[i].err = NoError}

\* s consists of '/' characters only.
AllSlashes(s) == \A i \in 1..Len(s) : s[i] = "/"

\* s with its trailing '/' characters cut off.
WithoutTrailingSlashes(s) ==
    LET keep == {i \in 1..Len(s) : s[i] # "/"}
    IN  IF keep = {} THEN <<>> ELSE Take(s, Max(keep))

\* s without prefix p, when it starts with p.
DropPrefix(s, p) == IF StartsWith(s, p) THEN From(s, Len(p) + 1) ELSE s

(***************************************************************************)
(* C9: remove_last_slash                                                   *)
(***************************************************************************)
\* C9: remove_last_slash raises for no string, the empty one included, and
\* returns its input with all trailing '/' removed and nothing else changed:
\* the result is a prefix of the input, what was cut is '/' only, and the
\* result does not end with '/'.
C9_RemoveLastSlash ==
    \A i \in CallsOf("remove_last_slash") :
        /\ log[i].err = NoError
        /\ Len(log[i].ret) <= Len(log[i].arg)
        /\ Take(log[i].arg, Len(log[i].ret)) = log[i].ret
        /\ AllSlashes(From(log[i].arg, Len(log[i].ret) + 1))
        /\ LastChar(log[i].ret) # SLASH

\* remove_last_slash was called on a string ending with two slashes and
\* returned a non-empty string.
C9_Witness ==
    \E i \in CallsOf("remove_last_slash") :
        /\ EndsWith(log[i].arg, <<"/", "/">>)
        /\ log[i].ret # <<>>

(***************************************************************************)
(* C1: full_clean_url twice                                                *)
(***************************************************************************)
\* u is white space, at most one scheme, at most one 'www.', a remainder,
\* white space, where the remainder holds no 'http://' or 'https://' and no
\* newline, does not begin with 'www.' or white space and, with its trailing
\* '/' cut off, does not end with white space.
CleanForm(u) ==
    LET x  == strip(u)
        x1 == IF StartsWith(x, HTTPS) THEN DropPrefix(x, HTTPS) ELSE DropPrefix(x, HTTP)
        x2 == DropPrefix(x1, WWW)
    IN  /\ ~Contains(x2, HTTP)
        /\ ~Contains(x2, HTTPS)
        /\ ~Contains(x2, <<"\n">>)
        /\ ~StartsWith(x2, WWW)
        /\ strip(WithoutTrailingSlashes(x2)) = WithoutTrailingSlashes(x2)

\* C1 as stated: full_clean_url(full_clean_url(u)) == full_clean_url(u) for
\* every string u.
C1_Idempotent ==
    \A i \in TwiceOf("full_clean_url") : log[i + 1].ret = log[i].ret

\* C1 as amended: full_clean_url(full_clean_url(u)) == full_clean_url(u) for
\* every u of the form white space, at most one 'http://' or 'https://', at
\* most one 'www.', a remainder, white space, the remainder being as CleanForm
\* says.
C1_IdempotentOnCleanForm ==
    \A i \in TwiceOf("full_clean_url") :
        CleanForm(log[i].arg) => log[i + 1].ret = log[i].ret

\* full_clean_url ran twice on an input of that form that the first run
\* changed (it had a scheme and a 'www.' to remove).
C1_Witness ==
    \E i \in TwiceOf("full_clean_url") :
        /\ CleanForm(log[i].arg)
        /\ StartsWith(log[i].arg, HTTP \o WWW)
        /\ log[i].ret = <<"a">>

(***************************************************************************)
(* C10: remove_www                                                         *)
(***************************************************************************)
\* The scheme prefix of the pattern, 'http://' or 'https://', or ''.
SchemePrefix(u) ==
    IF StartsWith(u, HTTPS) THEN HTTPS ELSE IF StartsWith(u, HTTP) THEN HTTP ELSE <<>>

\* C10: for a string that begins with an optional 'http://' or 'https://',
\* then 'www.' and at least one more character, remove_www returns the scheme
\* prefix followed by the text after 'www.', nothing added; every other
\* string is returned unchanged; no error is raised.
C10_RemoveWww ==
    \A i \in CallsOf("remove_www") :
        LET u     == log[i].arg
            rest  == DropPrefix(u, SchemePrefix(u))
            after == DropPrefix(rest, WWW)
        IN  /\ log[i].err = NoError
            /\ log[i].ret = IF StartsWith(rest, WWW) /\ after # <<>>
                              THEN SchemePrefix(u) \o after
                              ELSE u

(***************************************************************************)
(* C2: toggle_url_www twice                                                *)
(***************************************************************************)
FTPS == <<"f", "t", "p", "s", ":", "/", "/">>

\* The scheme prefix of a URL: 'http://', 'https://', 'ftp://', 'ftps://' (the
\* schemes DJANGO_URL_REGEX knows), or ''.
UrlSchemePrefix(u) ==
    IF StartsWith(u, HTTPS) THEN HTTPS
    ELSE IF StartsWith(u, HTTP) THEN HTTP
    ELSE IF StartsWith(u, FTPS) THEN FTPS
    ELSE IF StartsWith(u, FTP) THEN FTP
    ELSE <<>>

\* The host of a URL or domain string: after the scheme, up to the first '/'.
HostOf(u) == BeforeFirst(DropPrefix(u, UrlSchemePrefix(u)), SLASH)

\* What follows the host: '' or a path that begins with '/'.
PathOf(u) == From(DropPrefix(u, UrlSchemePrefix(u)), Len(HostOf(u)) + 1)

\* h begins with 'www.' in some letter case.
HasWww(h) == StartsWith(lower(h), WWW)

\* The host without its leading 'www.'.
BaseHost(h) == IF HasWww(h) THEN From(h, Len(WWW) + 1) ELSE h

\* Two or more non-empty labels of letters, digits and '-', joined by dots.
DomainLike(h) ==
    /\ h # <<>>
    /\ \A i \in 1..Len(h) : h[i] \in Letters \cup Digits \cup {"-", "."}
    /\ Contains(h, <<".">>)
    /\ h[1] # "." /\ h[Len(h)] # "."
    /\ ~Contains(h, <<".", ".">>)

\* A well-formed URL or domain string: an optional scheme, a host that is a
\* domain with or without a leading 'www.' in any letter case, an optional
\* path without white space.
WellFormedUrlOrDomain(u) ==
    /\ DomainLike(BaseHost(HostOf(u)))
    /\ \A i \in 1..Len(PathOf(u)) : PathOf(u)[i] \notin Whitespace

\* A leading 'www.' of the host is in lower case and no second 'www.', in any
\* letter case, follows it.
SingleLowerWww(u) ==
    HasWww(HostOf(u)) =>
        StartsWith(HostOf(u), WWW) /\ ~HasWww(BaseHost(HostOf(u)))

\* C2 as stated: toggle_url_www(toggle_url_www(u)) == u for every well-formed
\* URL or domain string u, the host with or without a leading 'www.' in any
\* letter case.
C2_Involution ==
    \A i \in TwiceOf("toggle_url_www") :
        WellFormedUrlOrDomain(log[i].arg) =>
            log[i + 1].err = NoError /\ log[i + 1].ret = log[i].arg

\* C2 as amended: toggle_url_www(toggle_url_www(u)) == u for every well-formed
\* URL or domain string u whose host has no leading 'www.' in any letter
\* case, or has one in lower case that no second 'www.' follows.
C2_InvolutionSingleLowerWww ==
    \A i \in TwiceOf("toggle_url_www") :
        WellFormedUrlOrDomain(log[i].arg) /\ SingleLowerWww(log[i].arg) =>
            log[i + 1].err = NoError /\ log[i + 1].ret = log[i].arg

\* toggle_url_www ran twice on 'http://www.a.b': the first run cut the
\* 'www.', the second put it back.
C2_Witness ==
    \E i \in TwiceOf("toggle_url_www") :
        /\ log[i].arg = HTTP \o WWW \o <<"a", ".", "b">>
        /\ log[i].ret = HTTP \o <<"a", ".", "b">>
        /\ log[i + 1].ret = log[i].arg

(***************************************************************************)
(* C3: toggle_last_url_slash twice                                         *)
(***************************************************************************)
\* The slash the encoded flag selects.
SlashOf(encoded) == IF encoded THEN ENCODED_SLASH ELSE SLASH

\* t ends with one slash that neither a second slash nor white space
\* precedes, or does not end with a slash at all.
EndsWithAtMostOneSlash(t, slash) ==
    EndsWith(t, slash) =>
        /\ ~EndsWith(Take(t, Len(t) - Len(slash)), slash)
        /\ strip(Take(t, Len(t) - Len(slash))) = Take(t, Len(t) - Len(slash))

\* C3 as stated: for every string u and either value e of the flag,
\* toggle_last_url_slash(toggle_last_url_slash(u, e), e) is u stripped.
C3_Involution ==
    \A i \in TwiceOf("toggle_last_url_slash") :
        log[i + 1].opt = log[i].opt => log[i + 1].ret = strip(log[i].arg)

\* C3 as amended: the same, for every u whose stripped form does not end with
\* two slashes in a row nor with white space followed by a slash (a slash
\* being '%2F' when the flag is set and '/' when it is not).
C3_InvolutionAtMostOneSlash ==
    \A i \in TwiceOf("toggle_last_url_slash") :
        /\ log[i + 1].opt = log[i].opt
        /\ EndsWithAtMostOneSlash(strip(log[i].arg), SlashOf(log[i].opt))
        => log[i + 1].ret = strip(log[i].arg)

\* toggle_last_url_slash ran twice with the flag set on a string with white
\* space around it that ends with '%2F': the first run cut the '%2F'.
C3_Witness ==
    \E i \in TwiceOf("toggle_last_url_slash") :
        /\ log[i].opt /\ log[i + 1].opt
        /\ EndsWith(strip(log[i].arg), ENCODED_SLASH)
        /\ strip(log[i].arg) # log[i].arg
        /\ log[i].ret \o ENCODED_SLASH = strip(log[i].arg)
        /\ log[i + 1].ret = strip(log[i].arg)

(***************************************************************************)
(* C4: split_url                                                           *)
(***************************************************************************)
\* u is a valid URL: the classifier returns true for it.
ValidUrl(u) == is_string_url(u).err = NoError /\ is_string_url(u).val

\* The scheme of u with its '://'.
SchemeOf(u) == Take(u, Find(u, <<":", "/", "/">>) + 2)

\* u with a leading 'www.' removed from its host.
WithoutHostWww(u) ==
    LET rest == From(u, Len(SchemeOf(u)) + 1)
    IN  SchemeOf(u) \o DropPrefix(rest, WWW)

\* C4: for every valid URL u, split_url(u) returns (d, p) such that the
\* scheme of u, '://', d and p together give u with a leading 'www.' removed
\* from its host, and u itself when clean_domain is false, also when the
\* text of the domain occurs again inside the path or query of u.
C4_SplitUrlRoundTrip ==
    \A i \in CallsOf("split_url") :
        ValidUrl(log[i].arg) =>
            /\ log[i].err = NoError
            /\ SchemeOf(log[i].arg) \o log[i].ret[1] \o log[i].ret[2]
                   = IF log[i].opt THEN WithoutHostWww(log[i].arg) ELSE log[i].arg

(***************************************************************************)
(* C5: the extractors raise exactly for an invalid URL                     *)
(***************************************************************************)
\* The classifier returns false for u.
InvalidUrl(u) == is_string_url(u).err = NoError /\ ~is_string_url(u).val

\* The authority of u: the text between '://' and the next '/', '?' or '#'.
AuthorityOf(u) ==
    LET rest == From(u, Len(SchemeOf(u)) + 1)
        stop == {k \in 1..Len(rest) : rest[k] \in {"/", "?", "#"}}
    IN  IF stop = {} THEN rest ELSE Take(rest, Min(stop) - 1)

\* C5: get_url_domain(u) raises ValueError exactly when is_string_url(u) is
\* false and otherwise returns the authority of u verbatim; split_url(u) and
\* make_absolute_url(r, base) raise exactly when is_string_url of u, of base,
\* is false, and never for a valid one.
C5_ExtractorPrecondition ==
    /\ \A i \in CallsOf("get_url_domain") :
           /\ (log[i].err = ValueError) <=> InvalidUrl(log[i].arg)
           /\ ~InvalidUrl(log[i].arg) =>
                  log[i].err = NoError /\ log[i].ret = AuthorityOf(log[i].arg)
    /\ \A i \in CallsOf("split_url") \cup CallsOf("make_absolute_url") :
           /\ (log[i].err = ValueError) <=> InvalidUrl(log[i].arg)
           /\ ValidUrl(log[i].arg) => log[i].err = NoError

(***************************************************************************)
(* C6: parse_url_list                                                      *)
(***************************************************************************)
\* The lines of text, each trimmed, the empty ones dropped.
RECURSIVE DropEmpty(_)
DropEmpty(lines) ==
    IF lines = <<>> THEN <<>>
    ELSE (IF strip(Head(lines)) # <<>> THEN <<strip(Head(lines))>> ELSE <<>>)
         \o DropEmpty(Tail(lines))

KeptLines(text) == DropEmpty(splitlines(text))

\* C6: parse_url_list trims each line of text and drops the empty ones, a
\* line of whitespace among them; when every remaining line is a valid URL
\* the result is the list of those trimmed lines in their order.
C6_ParseUrlList ==
    \A i \in CallsOf("parse_url_list") :
        LET kept == KeptLines(log[i].arg)
        IN  (\A k \in 1..Len(kept) : ValidUrl(kept[k])) =>
                log[i].err = NoError /\ log[i].ret = kept

(***************************************************************************)
(* C7: the list parsers fail fast                                          *)
(***************************************************************************)
\* The domain the claim takes from a kept line: its authority if present,
\* else the first '/'-delimited segment of its path.
ClaimedDomain(line) == domain_of_line(line, urlparse(line))

\* The kept lines at which validation fails.
FailingUrls(text) ==
    {k \in 1..Len(KeptLines(text)) : ~ValidUrl(KeptLines(text)[k])}

FailingDomains(text) ==
    {k \in 1..Len(KeptLines(text)) :
        \/ urlparse(KeptLines(text)[k]).err # NoError
        \/ ~is_string_domain(ClaimedDomain(KeptLines(text)[k]))}

\* The error names 0-based index k - 1 and the content of kept line k.
Names(ret, text, k) ==
    Len(ret) = 3 /\ ret[3] = k - 1 /\ ret[2] = KeptLines(text)[k]

\* C7: parse_url_list raises iff a kept line is not a valid URL, and
\* parse_domain_list raises iff the domain of a kept line fails
\* is_string_domain; the error names the smallest 0-based index over the
\* kept lines at which validation fails, with that line's content.
C7_FailFast ==
    /\ \A i \in CallsOf("parse_url_list") :
           /\ (log[i].err # NoError) <=> (FailingUrls(log[i].arg) # {})
           /\ log[i].err # NoError =>
                  Names(log[i].ret, log[i].arg, Min(FailingUrls(log[i].arg)))
    /\ \A i \in CallsOf("parse_domain_list") :
           /\ (log[i].err # NoError) <=> (FailingDomains(log[i].arg) # {})
           /\ log[i].err # NoError =>
                  Names(log[i].ret, log[i].arg, Min(FailingDomains(log[i].arg)))

(***************************************************************************)
(* C8: decode_url and is_string_url are total                              *)
(***************************************************************************)
\* C8: for every text, malformed ones included, decode_url returns a string
\* and is_string_url returns a boolean; neither raises.
C8_Total ==
    \A i \in CallsOf("decode_url") \cup CallsOf("is_string_url") :
        log[i].err = NoError

(***************************************************************************)
(* C11: is_string_ipv4                                                     *)
(***************************************************************************)
\* s is exactly four groups of 0 to 3 decimal digits separated by literal
\* dots.
FourDottedGroups(s) ==
    /\ Len(SplitOn(s, ".")) = 4
    /\ \A g \in 1..4 :
           /\ Len(SplitOn(s, ".")[g]) <= 3
           /\ \A k \in 1..Len(SplitOn(s, ".")[g]) : SplitOn(s, ".")[g][k] \in Digits

\* C11: is_string_ipv4(s) is true iff s consists of exactly four groups of 0
\* to 3 decimal digits separated by literal dots; groups separated by any
\* other character are rejected.
C11_Ipv4 ==
    \A i \in CallsOf("is_string_ipv4") :
        /\ log[i].err = NoError
        /\ log[i].ret <=> FourDottedGroups(log[i].arg)

(***************************************************************************)
(* C12: is_link_internal                                                   *)
(***************************************************************************)
\* The cleaned domain: full_clean_url of the domain, a domain given as a
\* valid URL being first reduced to its authority.
CleanedDomain(domain) ==
    full_clean_url(IF ValidUrl(domain) THEN AuthorityOf(domain) ELSE domain)

\* C12: when the trimmed link is not a valid URL, is_link_internal is true
\* for every domain; when it is one, the result is true iff the cleaned
\* domain is a prefix of full_clean_url(link); the function never raises.
C12_IsLinkInternal ==
    \A i \in CallsOf("is_link_internal") :
        /\ log[i].err = NoError
        /\ log[i].ret <=>
               \/ ~ValidUrl(strip(log[i].arg))
               \/ StartsWith(full_clean_url(log[i].arg), CleanedDomain(log[i].opt))

(***************************************************************************)
(* C13: get_domain_zone                                                    *)
(***************************************************************************)
\* The labels of the host of url: of its authority if it has one, else of
\* its first path segment.
HostLabels(url) == SplitOn(netloc_of(urlparse(url)), ".")

\* Every label from index j up to the last but one has 2 or 3 characters.
ShortRun(labels, j) ==
    \A m \in j..(Len(labels) - 1) : Len(labels[m]) \in {2, 3}

\* The index at which the maximal run of 2- or 3-character labels before
\* the last label begins (the index of the last label when there is none).
RunStart(labels) == Min({j \in 1..Len(labels) : ShortRun(labels, j)})

\* C13: get_domain_zone(url), when it returns, returns the last label of the
\* host preceded by the maximal run of the labels just before it that have 2
\* or 3 characters each, in their order, joined by '.'; so the result is a
\* label-aligned suffix of the host, and its last label is
\* get_root_domain_zone(url).
C13_DomainZone ==
    \A i \in CallsOf("get_domain_zone") :
        log[i].err = NoError =>
            /\ log[i].ret =
                   Join(SubSeq(HostLabels(log[i].arg), RunStart(HostLabels(log[i].arg)),
                               Len(HostLabels(log[i].arg))), <<".">>)
            /\ EndsWith(netloc_of(urlparse(log[i].arg)), log[i].ret)
            /\ get_root_domain_zone(log[i].arg).err = NoError
            /\ LastOf(SplitOn(log[i].ret, ".")) = get_root_domain_zone(log[i].arg).val

\* get_domain_zone returned 'bc.uk' for the domain 'bc.ghij.bc.uk', whose
\* host has a label of four characters before 'bc.uk' and a label of two
\* characters before that one.
C13_Witness ==
    \E i \in CallsOf("get_domain_zone") :
        /\ log[i].arg = <<"b", "c", ".", "g", "h", "i", "j", ".", "b", "c", ".", "u", "k">>
        /\ log[i].err = NoError
        /\ log[i].ret = <<"b", "c", ".", "u", "k">>

====
